---- MODULE Spec2Model ----
(***************************************************************************)
(* Model of the DMA driver core in hal/src/dma.rs: the channel allocator   *)
(* (_dma_find_first_free_channel_and_allocate, _dma_release_channel), the  *)
(* configuration engine (_dma_set_config), resource allocation             *)
(* (dma_allocate) and the completion dispatcher (DMAC_Handler).            *)
(*                                                                         *)
(* The statics of dma.rs are the state.  An action is one whole call of one *)
(* function, atomic because each function brackets its body with the       *)
(* critical section; the specification SpecSteps follows the same calls    *)
(* one statement per step, with the completion interrupt taken between two *)
(* statements.  A panic (unwrap of None, index out of bounds, arithmetic   *)
(* overflow) halts the program: halted becomes TRUE and nothing runs       *)
(* afterwards.                                                             *)
(*                                                                         *)
(* The specifications share the actions:                                   *)
(*   Spec        the program from the statics' initialisers (218-241)      *)
(*   SpecAlloc   the allocator applied to every consistent value of        *)
(*               dma_inst, the set bits held by callers' resources         *)
(*   SpecGrant   dma_allocate from the channel the scan's taken branch     *)
(*               returns                                                   *)
(*   SpecConfig  the configuration engine against the controller           *)
(*   SpecIsr     the dispatcher applied to every value of the statics and  *)
(*               flags it reads; SpecIsrFair re-invokes it for ever        *)
(*   SpecRelease release against the dispatcher, from the state with every *)
(*               channel allocated and published                           *)
(*   SpecSteps   the calls statement by statement against the interrupt    *)
(* All but the first start from states the code's own allocator never      *)
(* builds (its free-bit test never succeeds); they check each function     *)
(* against the values of the statics its contract is stated for.           *)
(***************************************************************************)
EXTENDS Integers, Naturals, Sequences, FiniteSets, TLC

----------------------------------------------------------------------------
(* Program constants *)

DMA_INVALID_CHANNEL == 255

CONF_MAX_USED_CHANNEL_NUM == 2

\* DmaCallbackType as usize: Error, Done, Suspend in declaration order
CB_Error == 0
CB_Done == 1
CB_Suspend == 2
CallbackIndex(kind) ==
    IF kind = "Error" THEN CB_Error
    ELSE IF kind = "Done" THEN CB_Done ELSE CB_Suspend

\* Bit masks of the channel interrupt flags: the handler names each mask
\* through the chintenclr field accessor terr(), tcmpl(), susp(); CHINTENCLR
\* and CHINTFLAG share one bit layout
TERR == 1
TCMPL == 2
SUSP == 4

(* Bounds of the model *)

\* caller-side DmaResource objects
MaxRes == 3
\* largest block transfer count a descriptor holds
MaxCount == 2
\* how many times the controller bring-up is followed
MaxBringup == 2

Channels == 0 .. (CONF_MAX_USED_CHANNEL_NUM - 1)
ResIds == 1 .. MaxRes

\* Option<T>: None, Some(x), and unwrap() of a Some
None == << >>
Some(x) == << x >>
unwrap(o) == o[1]

\* markers for "no callback invoked", "no branch taken", "nothing returned"
NoCallback == "none"
NoEvent == "none"
NoStatus == "none"
Unset == "unset"

----------------------------------------------------------------------------
(* Machine arithmetic *)

RECURSIVE Pow2(_)
Pow2(n) == IF n = 0 THEN 1 ELSE 2 * Pow2(n - 1)

\* bit i of x
Bit(x, i) == (x \div Pow2(i)) % 2

\* x | (1 << i)
SetBit(x, i) == IF Bit(x, i) = 1 THEN x ELSE x + Pow2(i)

\* x & !(1 << i)
ClearBit_Keep(x, i) == x

ClearBit(x, i) == IF Bit(x, i) = 1 THEN x - Pow2(i) ELSE x

RECURSIVE BitAnd(_, _)
BitAnd(a, b) ==
    IF a = 0 \/ b = 0 THEN 0
    ELSE (a % 2) * (b % 2) + 2 * BitAnd(a \div 2, b \div 2)

RECURSIVE PopCount(_)
PopCount(x) == IF x = 0 THEN 0 ELSE (x % 2) + PopCount(x \div 2)

\* `!x` on a u32, kept as two 16-bit halves
Not32(x) == [hi |-> 65535 - ((x \div 65536) % 65536), lo |-> 65535 - (x % 65536)]

IsZero32(h) == h.hi = 0 /\ h.lo = 0

----------------------------------------------------------------------------
(* State *)

VARIABLES
    dma_inst,               \* static mut dma_inst: DmaModule
    descriptor_section,     \* Option<[DmacDescriptor; N]>, btcnt of each slot
    _write_back_section,    \* Option<[DmacDescriptor; N]>, btcnt of each slot
    _dma_active_resource,   \* Option<[&DmaResource; N]>, the referenced object
    resources,              \* the callers' DmaResource objects
    dmac,                   \* DMAC and PM registers the driver writes
    chintflag,              \* CHINTFLAG of every channel (banked by CHID)
    crit_depth,             \* nesting depth of the critical section
    halted,                 \* a panic has stopped the program
    last,                   \* the most recent call: arguments and outcome
    pc,                     \* where the thread of control stands in a call
                            \* that is followed statement by statement
    qspi,                   \* Qspi.qspi: the registers of the QSPI peripheral
    qspi_ahb,               \* the flash window mapped at QSPI_AHB
    qpc                     \* where the thread of control stands in a call
                            \* of the QSPI driver, its arguments and buffer

vars == <<dma_inst, descriptor_section, _write_back_section,
          _dma_active_resource, resources, dmac, chintflag, crit_depth,
          halted, last, pc, qspi, qspi_ahb, qpc>>

\* the state of the DMA driver, and the state of the QSPI driver
dma_vars == <<dma_inst, descriptor_section, _write_back_section,
              _dma_active_resource, resources, dmac, chintflag, crit_depth,
              halted, pc>>

qspi_vars == <<qspi, qspi_ahb, qpc>>

\* StatusCode values this model produces
StatusCodes == {"OK", "Busy", "Uninitialized", "Suspend", "ErrIO",
                "ErrNotFound", "ErrInvalidArg"}

\* a DmaResource before any allocation (the early-panic path of the
\* dispatcher also records it, as its local is never assigned there)
FreshResource ==
    [channel_id |-> DMA_INVALID_CHANNEL, callback_enable |-> 0,
     job_status |-> "Uninitialized", transferred_size |-> 0]

\* DmaResourceConfig values handed to dma_allocate and _dma_set_config:
\* dma_get_config_defaults() and variations of every field
dma_get_config_defaults ==
    [priority |-> 0, peripheral_trigger |-> 0, trigger_action |-> 2,
     input_action |-> 0, event_output_enable |-> FALSE]

ConfigInputs ==
    { dma_get_config_defaults,
      [dma_get_config_defaults EXCEPT !.event_output_enable = TRUE],
      [dma_get_config_defaults EXCEPT !.input_action = 1,
                                      !.priority = 3,
                                      !.peripheral_trigger = 1,
                                      !.trigger_action = 0] }

\* reset value of a channel's CHCTRLB
ChctrlbReset ==
    [lvl |-> 0, trigsrc |-> 0, trigact |-> 0, evie |-> FALSE, evact |-> 0,
     evoe |-> FALSE]

DmacReset ==
    [chid |-> 0, swtrigctrl |-> 0,
     chctrla |-> [c \in Channels |-> "reset_value"],
     chctrlb |-> [c \in Channels |-> ChctrlbReset],
     ahbmask |-> FALSE, apbbmask |-> FALSE, ctrl |-> "reset_value",
     baseaddr |-> Unset, wrbaddr |-> Unset, bringups |-> 0]

\* the thread of control between two calls; inside a call that is followed
\* statement by statement pc holds the statement reached, the arguments and
\* the locals
Idle ==
    [at |-> "idle", res |-> 0, config |-> dma_get_config_defaults,
     taken |-> DMA_INVALID_CHANNEL, count |-> DMA_INVALID_CHANNEL,
     channel_id |-> DMA_INVALID_CHANNEL, caller |-> "none",
     pre_chctrlb |-> [c \in Channels |-> ChctrlbReset]]

----------------------------------------------------------------------------
(* Critical section.  system_interrupt_enter_critical_section and          *)
(* system_interrupt_leave_critical_section are stubs in dma.rs; they are   *)
(* modelled as the nesting counter that masks the completion interrupt     *)
(* while it is above zero.                                                 *)

system_interrupt_enter_critical_section_Noop(depth) == depth

system_interrupt_enter_critical_section(depth) == depth + 1

system_interrupt_leave_critical_section_Flat(depth) == 0

system_interrupt_leave_critical_section(depth) == depth - 1

----------------------------------------------------------------------------
(* Channel allocator *)

\* the free-channel test of the scan: `!(tmp & 0x00000001) == 0`; unary !
\* binds tighter than ==, and on a u32 it is the bitwise complement
FreeBitTest_Inverted(tmp) == (tmp % 2) = 1

FreeBitTest(tmp) == IsZero32(Not32(tmp % 2))

\* the scan `for count in 0..CONF_MAX_USED_CHANNEL_NUM`, tmp shifted right
\* after every miss; the result is the count at the break, or the sentinel
RECURSIVE ScanFree(_, _)
ScanFree(tmp, count) ==
    IF count >= CONF_MAX_USED_CHANNEL_NUM THEN DMA_INVALID_CHANNEL
    ELSE IF FreeBitTest(tmp) THEN count
    ELSE ScanFree(tmp \div 2, count + 1)

\* how many times the scan evaluates its test before it breaks or runs out
RECURSIVE ScanIterations(_, _)
ScanIterations(tmp, count) ==
    IF count >= CONF_MAX_USED_CHANNEL_NUM THEN 0
    ELSE IF FreeBitTest(tmp) THEN 1
    ELSE 1 + ScanIterations(tmp \div 2, count + 1)

\* the body of the scan's `if` for the count it is taken at, and the
\* `return count` that follows: the value returned and dma_inst afterwards
\* (free_channels is a u8)
AllocateAt(inst, count) ==
    [ret |-> count, iterations |-> count + 1,
     inst |-> [inst EXCEPT
                 !.allocated_channels = SetBit(@, count),
                 !.free_channels = (@ + 255) % 256]]

\* _dma_find_first_free_channel_and_allocate: the value returned and
\* dma_inst afterwards
_dma_find_first_free_channel_and_allocate_CountsDown(inst) ==
    LET count == ScanFree(inst.allocated_channels, 0) IN
    IF count = DMA_INVALID_CHANNEL
    THEN [ret |-> DMA_INVALID_CHANNEL,
          iterations |-> ScanIterations(inst.allocated_channels, 0),
          inst |-> [inst EXCEPT !.free_channels = (@ + 255) % 256]]
    ELSE AllocateAt(inst, count)

_dma_find_first_free_channel_and_allocate(inst) ==
    LET count == ScanFree(inst.allocated_channels, 0) IN
    IF count = DMA_INVALID_CHANNEL
    THEN [ret |-> DMA_INVALID_CHANNEL,
          iterations |-> ScanIterations(inst.allocated_channels, 0),
          inst |-> inst]
    ELSE AllocateAt(inst, count)

\* _dma_release_channel(channel): dma_inst afterwards
ReleaseKeepsCounter(inst, channel) ==
    [inst EXCEPT !.allocated_channels = ClearBit(@, channel)]

_dma_release_channel(inst, channel) ==
    [inst EXCEPT !.allocated_channels = ClearBit(@, channel),
                 !.free_channels = (@ + 1) % 256]

----------------------------------------------------------------------------
(* Configuration engine *)

\* _dma_set_config: the registers after selecting the resource's channel,
\* clearing its software trigger and writing CHCTRLB of the selected channel
_dma_set_config_Modify(regs, channel_id, config) ==
    [regs EXCEPT
       !.chid = channel_id,
       !.swtrigctrl = ClearBit(@, channel_id),
       !.chctrlb[channel_id] =
           [lvl |-> config.priority,
            trigsrc |-> config.peripheral_trigger,
            trigact |-> config.trigger_action,
            evie |-> @.evie \/ config.input_action # 0,
            evact |-> IF config.input_action # 0
                      THEN config.input_action ELSE @.evact,
            evoe |-> @.evoe \/ config.event_output_enable]]

_dma_set_config_ClearAll(regs, channel_id, config) ==
    [regs EXCEPT
       !.chid = channel_id,
       !.swtrigctrl = 0,
       !.chctrlb[channel_id] =
           [lvl |-> config.priority,
            trigsrc |-> config.peripheral_trigger,
            trigact |-> config.trigger_action,
            evie |-> config.input_action # 0,
            evact |-> IF config.input_action # 0
                      THEN config.input_action ELSE 0,
            evoe |-> config.event_output_enable]]

_dma_set_config_Toggle(regs, channel_id, config) ==
    [regs EXCEPT
       !.chid = channel_id,
       !.swtrigctrl = IF Bit(@, channel_id) = 1
                      THEN ClearBit(@, channel_id)
                      ELSE SetBit(@, channel_id),
       !.chctrlb[channel_id] =
           [lvl |-> config.priority,
            trigsrc |-> config.peripheral_trigger,
            trigact |-> config.trigger_action,
            evie |-> config.input_action # 0,
            evact |-> IF config.input_action # 0
                      THEN config.input_action ELSE 0,
            evoe |-> config.event_output_enable]]

_dma_set_config(regs, channel_id, config) ==
    [regs EXCEPT
       !.chid = channel_id,
       !.swtrigctrl = ClearBit(@, channel_id),
       !.chctrlb[channel_id] =
           [lvl |-> config.priority,
            trigsrc |-> config.peripheral_trigger,
            trigact |-> config.trigger_action,
            evie |-> config.input_action # 0,
            evact |-> IF config.input_action # 0
                      THEN config.input_action ELSE 0,
            evoe |-> config.event_output_enable]]

----------------------------------------------------------------------------
(* Resource allocation *)

\* the one-time controller bring-up of dma_allocate (dma.rs:401-426): the
\* registers afterwards; unwrapping an unset table panics after the clock
\* and reset writes
BringUp(regs) ==
    LET r1 == [regs EXCEPT !.ahbmask = TRUE, !.apbbmask = TRUE,
                           !.ctrl = "swrst",
                           !.bringups = @ + 1] IN
    IF descriptor_section = None
    THEN [regs |-> r1, panicked |-> TRUE,
          writes |-> {"ahbmask", "apbbmask", "ctrl"}]
    ELSE IF _write_back_section = None
    THEN [regs |-> [r1 EXCEPT !.baseaddr = "descriptor_section"],
          panicked |-> TRUE,
          writes |-> {"ahbmask", "apbbmask", "ctrl", "baseaddr"}]
    ELSE [regs |-> [r1 EXCEPT !.baseaddr = "descriptor_section",
                              !.wrbaddr = "_write_back_section",
                              !.ctrl = "dmaenable_lvlen0123"],
          panicked |-> FALSE,
          writes |-> {"ahbmask", "apbbmask", "ctrl", "baseaddr", "wrbaddr"}]

\* dma_allocate(resource, config) for the caller's object r: every static
\* and register afterwards, the StatusCode returned (NoStatus after a panic)
\* and the registers written on the way.  `taken` is the count at which the
\* scan of the allocator call at dma.rs:430 takes its branch;
\* DMA_INVALID_CHANNEL leaves that to the scan's own test
AllocateWith(r, config, taken) ==
    LET d1 == system_interrupt_enter_critical_section(crit_depth)
        \* `if dma_inst.dma_init { bring-up; dma_inst.dma_init = true }`
        up == IF dma_inst.dma_init
              THEN BringUp(dmac)
              ELSE [regs |-> dmac, panicked |-> FALSE, writes |-> {}]
        inst1 == IF dma_inst.dma_init /\ ~up.panicked
                 THEN [dma_inst EXCEPT !.dma_init = TRUE]
                 ELSE dma_inst
        \* the allocator enters and leaves the critical section itself
        found == IF taken = DMA_INVALID_CHANNEL
                 THEN _dma_find_first_free_channel_and_allocate(inst1)
                 ELSE AllocateAt(inst1, taken)
        new_channel == found.ret
        \* `dmac::chid::write`, `dmac::chctrla::write`, then _dma_set_config
        regs2 == _dma_set_config(
                    [up.regs EXCEPT !.chid = new_channel,
                                    !.chctrla[new_channel] = "swrst"],
                    new_channel, config)
        base == [inst |-> inst1, regs |-> up.regs, resources |-> resources,
                 depth |-> d1, status |-> NoStatus,
                 new_channel |-> DMA_INVALID_CHANNEL,
                 panicked |-> TRUE, writes |-> up.writes,
                 scanned |-> ~up.panicked,
                 iterations |-> IF up.panicked THEN 0 ELSE found.iterations]
    IN
    IF up.panicked THEN base
    ELSE IF new_channel = DMA_INVALID_CHANNEL
    THEN [base EXCEPT
            !.inst = found.inst,
            !.depth = system_interrupt_leave_critical_section(d1),
            !.status = "ErrNotFound",
            !.new_channel = new_channel,
            !.panicked = FALSE]
    ELSE \* `resource.channel_id = new_channel` ... publish
         [base EXCEPT
            !.inst = found.inst,
            !.regs = regs2,
            !.resources = [resources EXCEPT ![r].channel_id = new_channel],
            !.new_channel = new_channel,
            !.writes = up.writes \cup {"chid", "chctrla", "swtrigctrl",
                                       "chctrlb"},
            \* `_dma_active_resource.unwrap()[..] = &resource`: unwrap of
            \* None panics with the critical section held; on Some the
            \* unwrap yields a copy of the array and the store goes to it
            !.panicked = (_dma_active_resource = None),
            !.status = IF _dma_active_resource = None
                       THEN NoStatus ELSE "OK",
            !.depth = IF _dma_active_resource = None THEN d1
                      ELSE system_interrupt_leave_critical_section(d1)]

AllocateOutcome(r, config) ==
    AllocateWith(r, config, DMA_INVALID_CHANNEL)

dma_allocate(r, config) ==
    /\ ~halted
    /\ resources[r].channel_id = DMA_INVALID_CHANNEL
    /\ dma_inst.dma_init => dmac.bringups < MaxBringup
    /\ LET out == AllocateOutcome(r, config) IN
       /\ dma_inst' = out.inst
       /\ dmac' = out.regs
       /\ resources' = out.resources
       /\ crit_depth' = out.depth
       /\ halted' = out.panicked
       /\ last' = [op |-> "dma_allocate", res |-> r, config |-> config,
                   pre |-> dma_inst, pre_table |-> _dma_active_resource,
                   pre_resources |-> resources,
                   after_release_of |->
                       IF last.op = "_dma_release_channel"
                       THEN last.channel ELSE DMA_INVALID_CHANNEL,
                   scanned |-> out.scanned,
                   scan_iterations |-> out.iterations,
                   new_channel |-> out.new_channel, status |-> out.status,
                   writes |-> out.writes, panicked |-> out.panicked]
    /\ UNCHANGED <<qspi_vars, pc, descriptor_section, _write_back_section,
                   _dma_active_resource, chintflag>>

\* dma_allocate(resource, config) in the case the allocator call at
\* dma.rs:430 returns the free channel `count` (the taken branch of the
\* scan, dma.rs:265-268 and 278), followed through to the return
dma_allocate_granted(r, config, count) ==
    /\ ~halted
    /\ resources[r].channel_id = DMA_INVALID_CHANNEL
    /\ Bit(dma_inst.allocated_channels, count) = 0
    /\ dma_inst.dma_init => dmac.bringups < MaxBringup
    /\ LET out == AllocateWith(r, config, count) IN
       /\ dma_inst' = out.inst
       /\ dmac' = out.regs
       /\ resources' = out.resources
       /\ crit_depth' = out.depth
       /\ halted' = out.panicked
       /\ last' = [op |-> "dma_allocate", res |-> r, config |-> config,
                   pre |-> dma_inst, pre_table |-> _dma_active_resource,
                   pre_resources |-> resources,
                   after_release_of |->
                       IF last.op = "_dma_release_channel"
                       THEN last.channel ELSE DMA_INVALID_CHANNEL,
                   scanned |-> out.scanned,
                   scan_iterations |-> out.iterations,
                   new_channel |-> out.new_channel, status |-> out.status,
                   writes |-> out.writes, panicked |-> out.panicked]
    /\ UNCHANGED <<qspi_vars, pc, descriptor_section, _write_back_section,
                   _dma_active_resource, chintflag>>

\* a caller gives back the channel its resource holds:
\* `_dma_release_channel(resource.channel_id)`
release(r) ==
    /\ ~halted
    /\ resources[r].channel_id \in Channels
    /\ Bit(dma_inst.allocated_channels, resources[r].channel_id) = 1
    /\ dma_inst' = _dma_release_channel(dma_inst, resources[r].channel_id)
    /\ resources' = [resources EXCEPT ![r].channel_id = DMA_INVALID_CHANNEL]
    /\ last' = [op |-> "_dma_release_channel", res |-> r,
                channel |-> resources[r].channel_id, pre |-> dma_inst,
                pre_table |-> _dma_active_resource]
    /\ UNCHANGED <<qspi_vars, pc, descriptor_section, _write_back_section,
                   _dma_active_resource, dmac, chintflag, crit_depth, halted>>

----------------------------------------------------------------------------
(* Completion dispatcher *)

\* the if / else-if chain of DMAC_Handler over the flags read into isr: the
\* DmaCallbackType of the branch taken, NoEvent when no branch is taken
Classify_DoneFirst(isr) ==
    IF BitAnd(isr, TCMPL) # 0 THEN "Done"
    ELSE IF BitAnd(isr, TERR) # 0 THEN "Error"
    ELSE IF BitAnd(isr, SUSP) # 0 THEN "Suspend"
    ELSE NoEvent

Classify_SuspendByDefault(isr) ==
    IF BitAnd(isr, TERR) # 0 THEN "Error"
    ELSE IF BitAnd(isr, TCMPL) # 0 THEN "Done"
    ELSE "Suspend"

Classify(isr) ==
    IF BitAnd(isr, TERR) # 0 THEN "Error"
    ELSE IF BitAnd(isr, TCMPL) # 0 THEN "Done"
    ELSE IF BitAnd(isr, SUSP) # 0 THEN "Suspend"
    ELSE NoEvent

\* the flag each branch writes back to CHINTFLAG (write one to clear)
FlagOf(kind) ==
    IF kind = "Error" THEN TERR ELSE IF kind = "Done" THEN TCMPL ELSE SUSP

\* the job status each branch stores
StatusOf(kind) ==
    IF kind = "Error" THEN "ErrIO"
    ELSE IF kind = "Done" THEN "OK" ELSE "Suspend"

\* `resource.callback_enable & (1 << DmaCallbackType::X as usize) != 0`
CallbackEnabled_AnyBit(resource, kind) == resource.callback_enable # 0

CallbackEnabled(resource, kind) ==
    BitAnd(resource.callback_enable, Pow2(CallbackIndex(kind))) # 0

\* `total_size - write_size` on u32 values widened from the two btcnt
TransferredSize_Remaining(total_size, write_size) == write_size

TransferredSize_Total(total_size, write_size) == total_size

TransferredSize(total_size, write_size) == total_size - write_size

\* `dmac::intpend::read().id()`: the lowest channel with a pending
\* interrupt flag, 0 when there is none
IntpendId ==
    IF \E c \in Channels : chintflag[c] # 0
    THEN CHOOSE c \in Channels :
           /\ chintflag[c] # 0
           /\ \A b \in Channels : chintflag[b] # 0 => c <= b
    ELSE 0

\* CHINTFLAG as read through the channel selected by CHID
ReadChintflag(id) == IF id \in Channels THEN chintflag[id] ELSE 0

\* the values an unassigned `let resource: DmaResource` may hold
StaleSize == MaxCount + 1

IndeterminateResources ==
    { [channel_id |-> c, callback_enable |-> e, job_status |-> "Busy",
       transferred_size |-> StaleSize] :
         c \in Channels \cup {DMA_INVALID_CHANNEL},
         e \in 0 .. 7 }

\* the write of the handled event's flag to CHINTFLAG of the selected
\* channel, which clears it (dma.rs:343-344, 355-356, 368-369)
ClearFlag_Kept(flags, id, kind) == flags

ClearFlag(flags, id, kind) ==
    [flags EXCEPT ![id] = @ - BitAnd(@, FlagOf(kind))]

\* nothing was passed to a callback
NoView == [job_status |-> NoStatus, pending |-> 0, depth |-> 0]

\* `resource.callback[kind](resource)` behind its callback_enable test: the
\* callback invoked, and what it finds: the resource it is passed, the
\* flags of its channel and the critical section
InvokeCallback(resource, kind, flags, depth) ==
    IF CallbackEnabled(resource, kind)
    THEN [cb |-> kind,
          view |-> [job_status |-> resource.job_status,
                    pending |-> flags[resource.channel_id],
                    depth |-> depth]]
    ELSE [cb |-> NoCallback, view |-> NoView]

\* DMAC_Handler from line 331 on, for the value its local `resource` holds
HandlerOutcome(resource) ==
    LET d1 == system_interrupt_enter_critical_section(crit_depth)
        id == resource.channel_id
        regs1 == [dmac EXCEPT !.chid = id]
        isr == ReadChintflag(id)
        total_size == unwrap(descriptor_section)[id]
        write_size == unwrap(_write_back_section)[id]
        res1 == [resource EXCEPT
                   !.transferred_size = TransferredSize(total_size, write_size)]
        kind == Classify(isr)
        base == [regs |-> regs1, chintflag |-> chintflag,
                 resource |-> resource, isr |-> isr, kind |-> NoEvent,
                 cb |-> NoCallback, cb_view |-> NoView, depth |-> d1,
                 panicked |-> TRUE]
    IN
    IF \/ descriptor_section = None
       \/ _write_back_section = None
       \/ id \notin Channels
       \/ total_size < write_size
    THEN base
    ELSE IF kind = NoEvent
    THEN [base EXCEPT !.resource = res1, !.panicked = FALSE,
                      !.depth = system_interrupt_leave_critical_section(d1)]
    ELSE LET flags2 == ClearFlag(chintflag, id, kind)
             res2 == [res1 EXCEPT !.job_status = StatusOf(kind)]
             call == InvokeCallback(res2, kind, flags2, d1)
         IN
         [base EXCEPT
            !.chintflag = flags2,
            !.resource = res2,
            !.kind = kind,
            !.cb = call.cb,
            !.cb_view = call.view,
            !.panicked = FALSE,
            !.depth = system_interrupt_leave_critical_section(d1)]

\* DMAC_Handler: `if _dma_active_resource.is_none() { resource =
\* *(_dma_active_resource.unwrap()[active_channel]) }` unwraps exactly when
\* the table is None, which panics; when the table is Some the local
\* `resource` is never assigned and is read indeterminate
DMAC_Handler ==
    /\ ~halted
    /\ LET active_channel == IntpendId IN
         IF _dma_active_resource = None
         THEN /\ halted' = TRUE
              /\ crit_depth' =
                     system_interrupt_enter_critical_section(crit_depth)
              /\ last' = [op |-> "DMAC_Handler",
                          active_channel |-> active_channel,
                          pre_table |-> _dma_active_resource,
                          pre_resources |-> resources,
                          pre_chintflag |-> chintflag,
                          resource_in |-> FreshResource,
                          resource |-> FreshResource,
                          isr |-> 0, kind |-> NoEvent, cb |-> NoCallback,
                          cb_view |-> NoView, panicked |-> TRUE]
              /\ UNCHANGED <<dmac, chintflag>>
         ELSE \E resource \in IndeterminateResources :
                LET out == HandlerOutcome(resource) IN
                /\ halted' = out.panicked
                /\ crit_depth' = out.depth
                /\ dmac' = out.regs
                /\ chintflag' = out.chintflag
                /\ last' = [op |-> "DMAC_Handler",
                            active_channel |-> active_channel,
                            pre_table |-> _dma_active_resource,
                            pre_resources |-> resources,
                            pre_chintflag |-> chintflag,
                            resource_in |-> resource,
                            resource |-> out.resource,
                            isr |-> out.isr, kind |-> out.kind,
                            cb |-> out.cb, cb_view |-> out.cb_view,
                            panicked |-> out.panicked]
    /\ UNCHANGED <<qspi_vars,
                   pc, dma_inst, descriptor_section, _write_back_section,
                   _dma_active_resource, resources>>

----------------------------------------------------------------------------
(* Hardware *)

\* the controller raises an interrupt flag of a channel
HwRaiseFlag(c, flag) ==
    /\ ~halted
    /\ BitAnd(chintflag[c], flag) = 0
    /\ chintflag' = [chintflag EXCEPT ![c] = @ + flag]
    /\ last' = [op |-> "hardware"]
    /\ UNCHANGED <<qspi_vars,
                   pc, dma_inst, descriptor_section, _write_back_section,
                   _dma_active_resource, resources, dmac, crit_depth, halted>>

\* the controller moves a beat and counts the write-back btcnt down
HwTransferBeat(c) ==
    /\ ~halted
    /\ _write_back_section # None
    /\ unwrap(_write_back_section)[c] > 0
    /\ _write_back_section' =
           Some([unwrap(_write_back_section) EXCEPT ![c] = @ - 1])
    /\ last' = [op |-> "hardware"]
    /\ UNCHANGED <<qspi_vars,
                   pc, dma_inst, descriptor_section, _dma_active_resource,
                   resources, dmac, chintflag, crit_depth, halted>>

\* a software trigger is pending for a channel (SWTRIGCTRL bit set)
HwSwTrigger(c) ==
    /\ ~halted
    /\ Bit(dmac.swtrigctrl, c) = 0
    /\ dmac' = [dmac EXCEPT !.swtrigctrl = SetBit(@, c)]
    /\ last' = [op |-> "hardware"]
    /\ UNCHANGED <<qspi_vars,
                   pc, dma_inst, descriptor_section, _write_back_section,
                   _dma_active_resource, resources, chintflag, crit_depth,
                   halted>>

\* _dma_set_config(resource, resource_config) for a resource that has a
\* channel
configure(channel_id, config) ==
    /\ ~halted
    /\ dmac' = _dma_set_config(dmac, channel_id, config)
    /\ last' = [op |-> "_dma_set_config", channel_id |-> channel_id,
                config |-> config, pre_swtrigctrl |-> dmac.swtrigctrl]
    /\ UNCHANGED <<qspi_vars,
                   pc, dma_inst, descriptor_section, _write_back_section,
                   _dma_active_resource, resources, chintflag, crit_depth,
                   halted>>

----------------------------------------------------------------------------
(* The calls statement by statement.  The thread of control executes one   *)
(* statement per step; the completion interrupt is taken between two       *)
(* statements whenever it is pending and the critical section is not held. *)

Stepped == [op |-> "step"]

\* dma_allocate is called and enters the critical section (dma.rs:398).
\* `taken` is as in AllocateWith
allocate_enter(r, config, taken) ==
    /\ ~halted
    /\ pc.at = "idle"
    /\ resources[r].channel_id = DMA_INVALID_CHANNEL
    /\ taken \in Channels => Bit(dma_inst.allocated_channels, taken) = 0
    /\ dma_inst.dma_init => dmac.bringups < MaxBringup
    /\ crit_depth' = system_interrupt_enter_critical_section(crit_depth)
    /\ pc' = [Idle EXCEPT !.at = "allocate_init", !.res = r,
                          !.config = config, !.taken = taken,
                          !.caller = "dma_allocate"]
    /\ last' = Stepped
    /\ UNCHANGED <<qspi_vars,
                   dma_inst, descriptor_section, _write_back_section,
                   _dma_active_resource, resources, dmac, chintflag, halted>>

\* `if dma_inst.dma_init { bring-up; dma_inst.dma_init = true }`
\* (dma.rs:400-427)
allocate_init ==
    /\ ~halted
    /\ pc.at = "allocate_init"
    /\ LET up == IF dma_inst.dma_init
                 THEN BringUp(dmac)
                 ELSE [regs |-> dmac, panicked |-> FALSE, writes |-> {}]
       IN
       /\ dmac' = up.regs
       /\ halted' = up.panicked
       /\ pc' = IF up.panicked THEN pc ELSE [pc EXCEPT !.at = "find_enter"]
    /\ last' = Stepped
    /\ UNCHANGED <<qspi_vars,
                   dma_inst, descriptor_section, _write_back_section,
                   _dma_active_resource, resources, chintflag, crit_depth>>

\* the allocator enters the critical section (dma.rs:256)
find_enter ==
    /\ ~halted
    /\ pc.at = "find_enter"
    /\ crit_depth' = system_interrupt_enter_critical_section(crit_depth)
    /\ pc' = [pc EXCEPT !.at = "find_scan"]
    /\ last' = Stepped
    /\ UNCHANGED <<qspi_vars,
                   dma_inst, descriptor_section, _write_back_section,
                   _dma_active_resource, resources, dmac, chintflag, halted>>

\* the scan up to and including `dma_inst.allocated_channels |= 1 << count`
\* (dma.rs:259-265)
find_scan ==
    /\ ~halted
    /\ pc.at = "find_scan"
    /\ LET count == IF pc.taken = DMA_INVALID_CHANNEL
                    THEN ScanFree(dma_inst.allocated_channels, 0)
                    ELSE pc.taken
       IN
       IF count = DMA_INVALID_CHANNEL
       THEN /\ pc' = [pc EXCEPT !.at = "find_leave", !.count = count]
            /\ UNCHANGED dma_inst
       ELSE /\ pc' = [pc EXCEPT !.at = "find_count", !.count = count]
            /\ dma_inst' = [dma_inst EXCEPT
                              !.allocated_channels = SetBit(@, count)]
    /\ last' = Stepped
    /\ UNCHANGED <<qspi_vars, descriptor_section, _write_back_section,
                   _dma_active_resource, resources, dmac, chintflag,
                   crit_depth, halted>>

\* `dma_inst.free_channels -= 1` (dma.rs:266)
find_count ==
    /\ ~halted
    /\ pc.at = "find_count"
    /\ dma_inst' = [dma_inst EXCEPT !.free_channels = (@ + 255) % 256]
    /\ pc' = [pc EXCEPT !.at = "find_leave"]
    /\ last' = Stepped
    /\ UNCHANGED <<qspi_vars, descriptor_section, _write_back_section,
                   _dma_active_resource, resources, dmac, chintflag,
                   crit_depth, halted>>

\* the allocator leaves the critical section and returns (dma.rs:273-279)
find_leave ==
    /\ ~halted
    /\ pc.at = "find_leave"
    /\ crit_depth' = system_interrupt_leave_critical_section(crit_depth)
    /\ pc' = [pc EXCEPT !.at = "allocate_check"]
    /\ last' = Stepped
    /\ UNCHANGED <<qspi_vars,
                   dma_inst, descriptor_section, _write_back_section,
                   _dma_active_resource, resources, dmac, chintflag, halted>>

\* `if new_channel == DMA_INVALID_CHANNEL { leave; return ErrNotFound }`,
\* else `resource.channel_id = new_channel` and the channel select
\* (dma.rs:433-444)
allocate_check ==
    /\ ~halted
    /\ pc.at = "allocate_check"
    /\ IF pc.count = DMA_INVALID_CHANNEL
       THEN /\ crit_depth' =
                  system_interrupt_leave_critical_section(crit_depth)
            /\ pc' = Idle
            /\ last' = [op |-> "returned", call |-> "dma_allocate",
                        res |-> pc.res, status |-> "ErrNotFound"]
            /\ UNCHANGED <<resources, dmac>>
       ELSE /\ resources' = [resources EXCEPT ![pc.res].channel_id = pc.count]
            /\ dmac' = [dmac EXCEPT !.chid = pc.count]
            /\ pc' = [pc EXCEPT !.at = "allocate_reset"]
            /\ last' = Stepped
            /\ UNCHANGED crit_depth
    /\ UNCHANGED <<qspi_vars,
                   dma_inst, descriptor_section, _write_back_section,
                   _dma_active_resource, chintflag, halted>>

\* the channel reset through CHCTRLA of the selected channel, and the call
\* `_dma_set_config(resource, config)` (dma.rs:445-451)
allocate_reset ==
    /\ ~halted
    /\ pc.at = "allocate_reset"
    /\ dmac' = IF dmac.chid \in Channels
               THEN [dmac EXCEPT !.chctrla[dmac.chid] = "swrst"]
               ELSE dmac
    /\ pc' = [pc EXCEPT !.at = "set_config_enter",
                        !.channel_id = resources[pc.res].channel_id,
                        !.pre_chctrlb = dmac.chctrlb]
    /\ last' = Stepped
    /\ UNCHANGED <<qspi_vars,
                   dma_inst, descriptor_section, _write_back_section,
                   _dma_active_resource, resources, chintflag, crit_depth,
                   halted>>

\* _dma_set_config enters the critical section (dma.rs:288), called from
\* dma_allocate
set_config_enter ==
    /\ ~halted
    /\ pc.at = "set_config_enter"
    /\ crit_depth' = system_interrupt_enter_critical_section(crit_depth)
    /\ pc' = [pc EXCEPT !.at = "set_config_chid"]
    /\ last' = Stepped
    /\ UNCHANGED <<qspi_vars,
                   dma_inst, descriptor_section, _write_back_section,
                   _dma_active_resource, resources, dmac, chintflag, halted>>

\* _dma_set_config is called for a resource on channel_id and enters the
\* critical section (dma.rs:288)
configure_enter(channel_id, config) ==
    /\ ~halted
    /\ pc.at = "idle"
    /\ crit_depth' = system_interrupt_enter_critical_section(crit_depth)
    /\ pc' = [Idle EXCEPT !.at = "set_config_chid", !.config = config,
                          !.channel_id = channel_id,
                          !.pre_chctrlb = dmac.chctrlb]
    /\ last' = Stepped
    /\ UNCHANGED <<qspi_vars,
                   dma_inst, descriptor_section, _write_back_section,
                   _dma_active_resource, resources, dmac, chintflag, halted>>

\* `dmac::chid::write(|w| w.id(resource.channel_id))` (dma.rs:289)
set_config_chid ==
    /\ ~halted
    /\ pc.at = "set_config_chid"
    /\ dmac' = [dmac EXCEPT !.chid = pc.channel_id]
    /\ pc' = [pc EXCEPT !.at = "set_config_swtrig"]
    /\ last' = Stepped
    /\ UNCHANGED <<qspi_vars,
                   dma_inst, descriptor_section, _write_back_section,
                   _dma_active_resource, resources, chintflag, crit_depth,
                   halted>>

\* the SWTRIGCTRL read-modify-write (dma.rs:290-292)
set_config_swtrig ==
    /\ ~halted
    /\ pc.at = "set_config_swtrig"
    /\ dmac' = [dmac EXCEPT !.swtrigctrl = ClearBit(@, pc.channel_id)]
    /\ pc' = [pc EXCEPT !.at = "set_config_chctrlb"]
    /\ last' = Stepped
    /\ UNCHANGED <<qspi_vars,
                   dma_inst, descriptor_section, _write_back_section,
                   _dma_active_resource, resources, chintflag, crit_depth,
                   halted>>

\* the CHCTRLB write (dma.rs:294-309); the register written is the one of
\* the channel CHID selects at that moment
set_config_chctrlb ==
    /\ ~halted
    /\ pc.at = "set_config_chctrlb"
    /\ dmac' = IF dmac.chid \in Channels
               THEN [dmac EXCEPT !.chctrlb[dmac.chid] =
                       _dma_set_config(dmac, dmac.chid,
                                       pc.config).chctrlb[dmac.chid]]
               ELSE dmac
    /\ pc' = [pc EXCEPT !.at = "set_config_leave"]
    /\ last' = Stepped
    /\ UNCHANGED <<qspi_vars,
                   dma_inst, descriptor_section, _write_back_section,
                   _dma_active_resource, resources, chintflag, crit_depth,
                   halted>>

\* _dma_set_config leaves the critical section and returns (dma.rs:310)
set_config_leave ==
    /\ ~halted
    /\ pc.at = "set_config_leave"
    /\ crit_depth' = system_interrupt_leave_critical_section(crit_depth)
    /\ IF pc.caller = "dma_allocate"
       THEN /\ pc' = [pc EXCEPT !.at = "allocate_publish"]
            /\ last' = Stepped
       ELSE /\ pc' = Idle
            /\ last' = [op |-> "returned", call |-> "_dma_set_config",
                        res |-> pc.res, status |-> NoStatus]
    /\ UNCHANGED <<qspi_vars,
                   dma_inst, descriptor_section, _write_back_section,
                   _dma_active_resource, resources, dmac, chintflag, halted>>

\* `_dma_active_resource.unwrap()[resource.channel_id as usize] = &resource`
\* (dma.rs:456-458): a panic on None, a store into a copy on Some
allocate_publish ==
    /\ ~halted
    /\ pc.at = "allocate_publish"
    /\ halted' = (_dma_active_resource = None)
    /\ pc' = IF _dma_active_resource = None
             THEN pc ELSE [pc EXCEPT !.at = "allocate_leave"]
    /\ last' = Stepped
    /\ UNCHANGED <<qspi_vars,
                   dma_inst, descriptor_section, _write_back_section,
                   _dma_active_resource, resources, dmac, chintflag,
                   crit_depth>>

\* dma_allocate leaves the critical section and returns OK (dma.rs:460-462)
allocate_leave ==
    /\ ~halted
    /\ pc.at = "allocate_leave"
    /\ crit_depth' = system_interrupt_leave_critical_section(crit_depth)
    /\ pc' = Idle
    /\ last' = [op |-> "returned", call |-> "dma_allocate", res |-> pc.res,
                status |-> "OK"]
    /\ UNCHANGED <<qspi_vars,
                   dma_inst, descriptor_section, _write_back_section,
                   _dma_active_resource, resources, dmac, chintflag, halted>>

\* a caller gives back the channel of its resource, which has no channel
\* from the call on: `dma_inst.allocated_channels &= !(1 << channel)`
\* (dma.rs:283)
release_clear(r) ==
    /\ ~halted
    /\ pc.at = "idle"
    /\ resources[r].channel_id \in Channels
    /\ Bit(dma_inst.allocated_channels, resources[r].channel_id) = 1
    /\ dma_inst' = [dma_inst EXCEPT
                      !.allocated_channels =
                          ClearBit(@, resources[r].channel_id)]
    /\ pc' = [Idle EXCEPT !.at = "release_count", !.res = r,
                          !.channel_id = resources[r].channel_id,
                          !.caller = "_dma_release_channel"]
    /\ resources' = [resources EXCEPT ![r].channel_id = DMA_INVALID_CHANNEL]
    /\ last' = Stepped
    /\ UNCHANGED <<qspi_vars, descriptor_section, _write_back_section,
                   _dma_active_resource, dmac, chintflag, crit_depth, halted>>

\* `dma_inst.free_channels += 1` (dma.rs:284) and the return to the caller
release_count ==
    /\ ~halted
    /\ pc.at = "release_count"
    /\ dma_inst' = [dma_inst EXCEPT !.free_channels = (@ + 1) % 256]
    /\ pc' = Idle
    /\ last' = [op |-> "returned", call |-> "_dma_release_channel",
                res |-> pc.res, status |-> NoStatus]
    /\ UNCHANGED <<qspi_vars, descriptor_section, _write_back_section,
                   _dma_active_resource, resources, dmac, chintflag,
                   crit_depth, halted>>

\* the completion interrupt: DMAC_Handler runs to its end between two
\* statements of the thread of control when a channel interrupt is pending
\* and the critical section is not held
Interrupt ==
    /\ crit_depth = 0
    /\ \E c \in Channels : chintflag[c] # 0
    /\ DMAC_Handler

----------------------------------------------------------------------------
(* QSPI flash command driver (src/hal/src/samd51/qspi.rs) *)

\* bounds of the QSPI driver's inputs: the longest buffer and the highest
\* address handed to it
MaxLen == 1
MaxAddr == 1

U8 == 0 .. 255

\* enum Command and Command::bits, the instruction code of each command
Command ==
    {"Read", "QuadRead", "ReadId", "PageProgram", "QuadPageProgram",
     "ReadStatus", "ReadStatus2", "WriteStatus", "WriteStatus2",
     "EnableReset", "Reset", "WriteEnable", "WriteDisable", "EraseSector",
     "EraseBlock", "EraseChip"}

bits(command) ==
    CASE command = "Read" -> 3
      [] command = "QuadRead" -> 107
      [] command = "ReadId" -> 159
      [] command = "PageProgram" -> 2
      [] command = "QuadPageProgram" -> 50
      [] command = "ReadStatus" -> 5
      [] command = "ReadStatus2" -> 53
      [] command = "WriteStatus" -> 1
      [] command = "WriteStatus2" -> 49
      [] command = "EnableReset" -> 102
      [] command = "Reset" -> 153
      [] command = "WriteEnable" -> 6
      [] command = "WriteDisable" -> 4
      [] command = "EraseSector" -> 32
      [] command = "EraseBlock" -> 216
      [] command = "EraseChip" -> 199

\* Result<(), Error>
Ok == "Ok"
CommandFunctionMismatch == "Err(CommandFunctionMismatch)"

\* the command entry points, and the two memory entry points that take no
\* command
CommandFunctions ==
    {"run_command", "read_command", "write_command", "erase_command"}

MemoryFunctions == {"read_memory", "write_memory"}

\* the `match command` at the head of each entry point: TRUE when the
\* command falls in an arm that goes on, FALSE when it falls in `_ =>
\* return Err(..)`; read_memory and write_memory have no match
Accepts_EraseInRun(fn, command) ==
    CASE fn = "run_command" ->
           command \in {"WriteEnable", "WriteDisable", "Reset",
                        "EnableReset", "EraseChip"}
      [] fn = "read_command" ->
           command \in {"Read", "QuadRead", "ReadId", "ReadStatus",
                        "ReadStatus2"}
      [] fn = "write_command" ->
           command \in {"PageProgram", "QuadPageProgram", "WriteStatus",
                        "WriteStatus2"}
      [] fn = "erase_command" ->
           command \in {"EraseSector", "EraseBlock", "EraseChip"}
      [] OTHER -> TRUE

Accepts(fn, command) ==
    CASE fn = "run_command" ->
           command \in {"WriteEnable", "WriteDisable", "Reset",
                        "EnableReset"}
      [] fn = "read_command" ->
           command \in {"Read", "QuadRead", "ReadId", "ReadStatus",
                        "ReadStatus2"}
      [] fn = "write_command" ->
           command \in {"PageProgram", "QuadPageProgram", "WriteStatus",
                        "WriteStatus2"}
      [] fn = "erase_command" ->
           command \in {"EraseSector", "EraseBlock", "EraseChip"}
      [] OTHER -> TRUE

\* INSTRFRAME as `instrframe.write` leaves it: the fields the closure sets,
\* every other field at its reset value
InstrFrameReset ==
    [width |-> "single_bit_spi", addrlen |-> "_24bits", tfrtype |-> "read",
     instren |-> FALSE, dataen |-> FALSE, addren |-> FALSE, dummylen |-> 0]

InstrFrame(fn, len) ==
    CASE fn = "run_command" ->
           [InstrFrameReset EXCEPT !.instren = TRUE]
      [] fn = "read_command" ->
           [InstrFrameReset EXCEPT !.instren = TRUE, !.dataen = TRUE]
      [] fn = "write_command" ->
           [InstrFrameReset EXCEPT !.tfrtype = "write", !.instren = TRUE,
                                   !.dataen = (len > 0)]
      [] fn = "erase_command" ->
           [InstrFrameReset EXCEPT !.tfrtype = "write", !.instren = TRUE,
                                   !.addren = TRUE]
      [] fn = "read_memory" ->
           [InstrFrameReset EXCEPT !.width = "quad_output",
                                   !.tfrtype = "readmemory",
                                   !.instren = TRUE, !.dataen = TRUE,
                                   !.addren = TRUE, !.dummylen = 8]
      [] fn = "write_memory" ->
           [InstrFrameReset EXCEPT !.width = "quad_output",
                                   !.tfrtype = "writememory",
                                   !.instren = TRUE, !.dataen = TRUE,
                                   !.addren = TRUE]

\* INSTRFRAME after the head of an entry point called with `command` and a
\* buffer of `len` bytes: written when the match lets the command through
FrameOnEntry_BeforeMatch(fn, command, len, frame) == InstrFrame(fn, len)

FrameOnEntry(fn, command, len, frame) ==
    IF Accepts(fn, command) THEN InstrFrame(fn, len) ELSE frame

\* which of run_read_instruction and run_write_instruction an entry point
\* calls
InstructionKind(fn) ==
    IF fn \in {"write_command", "erase_command", "write_memory"}
    THEN "run_write_instruction" ELSE "run_read_instruction"

\* `intflag.modify(|_, w| w.instrend().set_bit())`: INSTREND afterwards;
\* writing a one to an interrupt flag clears it
ClearInstrEnd_Kept(instrend) == instrend

ClearInstrEnd(instrend) == FALSE

\* u8::saturating_sub, and the wrapping subtraction of a u8
wrapping_sub(a, b) == (a - b + 256) % 256

saturating_sub(a, b) == IF a >= b THEN a - b ELSE 0

\* the bytes of the flash window the driver is handed addresses of
Window == 0 .. (MaxAddr + MaxLen - 1)

\* the buffers handed to the driver: the empty one and one of MaxLen bytes,
\* data to write and room for a response; the addresses handed to it
DataBuffers == { << >>, [i \in 1 .. MaxLen |-> 1] }

ResponseBuffers == { << >>, [i \in 1 .. MaxLen |-> 0] }

Addresses == {0, MaxAddr}

\* `core::ptr::copy(src, dst, len)` between a buffer and the flash window
\* at QSPI_AHB + addr
CopyToWindow(window, addr, buf) ==
    [a \in Window |->
       IF a >= addr /\ a < addr + Len(buf) THEN buf[a - addr + 1]
       ELSE window[a]]

CopyFromWindow(window, addr, buf) ==
    [i \in 1 .. Len(buf) |-> window[addr + i - 1]]

\* the peripheral as Qspi::new leaves it (qspi.rs:48-64): reset, baud 14,
\* memory mode, enabled; in_flight is the controller's side of an
\* instruction, started and not yet ended
QspiNew ==
    [instrframe |-> InstrFrameReset, instrctrl |-> 0, instraddr |-> 0,
     ctrla |-> [enable |-> TRUE, lastxfer |-> FALSE],
     ctrlb |-> [mode |-> "memory", csmode |-> "lastxfer",
                datalen |-> "_8bits"],
     baud |-> [baud |-> 14, cpol |-> FALSE, cpha |-> FALSE],
     instrend |-> FALSE, in_flight |-> FALSE]

\* the thread of control outside the QSPI driver
QIdle ==
    [at |-> "idle", fn |-> "none", command |-> "none", addr |-> 0,
     buf |-> << >>, log |-> << >>]

QspiInit ==
    /\ qspi = QspiNew
    /\ qspi_ahb = [a \in Window |-> 0]
    /\ qpc = QIdle

\* the head of an entry point: the match on the command, and either the
\* return of Err(CommandFunctionMismatch) or the INSTRFRAME write and the
\* call of run_read_instruction / run_write_instruction
CommandEntry(fn, command, addr, buf) ==
    /\ qspi' = [qspi EXCEPT
                  !.instrframe = FrameOnEntry(fn, command, Len(buf), @),
                  !.in_flight = @ \/ Accepts(fn, command)]
    /\ IF Accepts(fn, command)
       THEN /\ qpc' = [at |-> IF InstructionKind(fn) = "run_write_instruction"
                              THEN "instraddr_write" ELSE "instrctrl_write",
                       fn |-> fn, command |-> command, addr |-> addr,
                       buf |-> buf, log |-> << "instrframe" >>]
            /\ last' = [op |-> "qspi_step"]
       ELSE /\ qpc' = QIdle
            /\ last' = [op |-> "qspi_returned", fn |-> fn,
                        command |-> command, buf_in |-> buf, buf |-> buf,
                        log |-> << >>, result |-> CommandFunctionMismatch]
    /\ UNCHANGED <<dma_vars, qspi_ahb>>

\* the entry points, called while the thread of control is outside the
\* driver
run_command(command) ==
    /\ qpc.at = "idle"
    /\ CommandEntry("run_command", command, 0, << >>)

read_command(command, response) ==
    /\ qpc.at = "idle"
    /\ CommandEntry("read_command", command, 0, response)

write_command(command, data) ==
    /\ qpc.at = "idle"
    /\ CommandEntry("write_command", command, 0, data)

erase_command(command, address) ==
    /\ qpc.at = "idle"
    /\ CommandEntry("erase_command", command, address, << >>)

read_memory(addr, buf) ==
    /\ qpc.at = "idle"
    /\ CommandEntry("read_memory", "QuadRead", addr, buf)

write_memory(addr, buf) ==
    /\ qpc.at = "idle"
    /\ CommandEntry("write_memory", "QuadPageProgram", addr, buf)

\* run_write_instruction: `if command == EraseSector || command ==
\* EraseBlock { instraddr.write(addr) }` (qspi.rs:83-85)
instraddr_write ==
    /\ qpc.at = "instraddr_write"
    /\ IF qpc.command \in {"EraseSector", "EraseBlock"}
       THEN /\ qspi' = [qspi EXCEPT !.instraddr = qpc.addr]
            /\ qpc' = [qpc EXCEPT !.at = "instrctrl_write",
                                  !.log = Append(@, "instraddr")]
       ELSE /\ qpc' = [qpc EXCEPT !.at = "instrctrl_write"]
            /\ UNCHANGED qspi
    /\ last' = [op |-> "qspi_step"]
    /\ UNCHANGED <<dma_vars, qspi_ahb>>

\* `instrctrl.write(|w| w.instr().bits(command.bits()))` (qspi.rs:86, 107)
instrctrl_write ==
    /\ qpc.at = "instrctrl_write"
    /\ qspi' = [qspi EXCEPT !.instrctrl = bits(qpc.command)]
    /\ qpc' = [qpc EXCEPT !.at = "instrframe_read",
                          !.log = Append(@, "instrctrl")]
    /\ last' = [op |-> "qspi_step"]
    /\ UNCHANGED <<dma_vars, qspi_ahb>>

\* `let _ = instrframe.read().bits()` (qspi.rs:87, 108)
instrframe_read ==
    /\ qpc.at = "instrframe_read"
    /\ qpc' = [qpc EXCEPT !.at = "data_copy",
                          !.log = Append(@, "instrframe_read")]
    /\ last' = [op |-> "qspi_step"]
    /\ UNCHANGED <<dma_vars, qspi, qspi_ahb>>

\* `if buf.len() > 0 { core::ptr::copy(..) }`: into the flash window in
\* run_write_instruction (qspi.rs:88-90), out of it in run_read_instruction
\* (qspi.rs:109-111)
data_copy ==
    /\ qpc.at = "data_copy"
    /\ IF Len(qpc.buf) > 0
       THEN IF InstructionKind(qpc.fn) = "run_write_instruction"
            THEN /\ qspi_ahb' = CopyToWindow(qspi_ahb, qpc.addr, qpc.buf)
                 /\ qpc' = [qpc EXCEPT !.at = "lastxfer_write",
                                       !.log = Append(@, "copy")]
            ELSE /\ qpc' = [qpc EXCEPT
                              !.at = "lastxfer_write",
                              !.buf = CopyFromWindow(qspi_ahb, qpc.addr, @),
                              !.log = Append(@, "copy")]
                 /\ UNCHANGED qspi_ahb
       ELSE /\ qpc' = [qpc EXCEPT !.at = "lastxfer_write"]
            /\ UNCHANGED qspi_ahb
    /\ last' = [op |-> "qspi_step"]
    /\ UNCHANGED <<dma_vars, qspi>>

\* `ctrla.write(|w| { w.enable().set_bit(); w.lastxfer().set_bit() })`
\* (qspi.rs:92-95, 113-116)
lastxfer_write ==
    /\ qpc.at = "lastxfer_write"
    /\ qspi' = [qspi EXCEPT !.ctrla = [enable |-> TRUE, lastxfer |-> TRUE]]
    /\ qpc' = [qpc EXCEPT !.at = "instrend_wait",
                          !.log = Append(@, "lastxfer")]
    /\ last' = [op |-> "qspi_step"]
    /\ UNCHANGED <<dma_vars, qspi_ahb>>

\* `while intflag.read().instrend().bit_is_clear() {}` (qspi.rs:97, 118):
\* the loop is left once INSTREND is read set
instrend_wait ==
    /\ qpc.at = "instrend_wait"
    /\ qspi.instrend
    /\ qpc' = [qpc EXCEPT !.at = "instrend_clear",
                          !.log = Append(@, "instrend_seen")]
    /\ last' = [op |-> "qspi_step"]
    /\ UNCHANGED <<dma_vars, qspi, qspi_ahb>>

\* `intflag.modify(|_, w| w.instrend().set_bit())` (qspi.rs:98, 119), the
\* return of the instruction and of the entry point that ran it
instrend_clear ==
    /\ qpc.at = "instrend_clear"
    /\ qspi' = [qspi EXCEPT !.instrend = ClearInstrEnd(@)]
    /\ qpc' = QIdle
    /\ last' = [op |-> "qspi_returned", fn |-> qpc.fn,
                command |-> qpc.command, addr |-> qpc.addr,
                buf_in |-> qpc.buf, buf |-> qpc.buf,
                log |-> Append(qpc.log, "instrend_clear"),
                result |-> Ok]
    /\ UNCHANGED <<dma_vars, qspi_ahb>>

\* the controller ends the instruction it was started on and raises
\* INSTREND, the flag the driver waits for at qspi.rs:97 and 118
HwInstrEnd ==
    /\ qspi.in_flight
    /\ qspi' = [qspi EXCEPT !.instrend = TRUE, !.in_flight = FALSE]
    /\ last' = [op |-> "hardware"]
    /\ UNCHANGED <<dma_vars, qspi_ahb, qpc>>

\* set_clk_divider(value): `baud.write(|w| w.baud().bits(
\* value.saturating_sub(1)))` (qspi.rs:246-249)
set_clk_divider(value) ==
    /\ qpc.at = "idle"
    /\ qspi' = [qspi EXCEPT
                  !.baud = [baud |-> saturating_sub(value, 1),
                            cpol |-> FALSE, cpha |-> FALSE]]
    /\ last' = [op |-> "set_clk_divider", value |-> value]
    /\ UNCHANGED <<dma_vars, qspi_ahb, qpc>>

----------------------------------------------------------------------------
(* Specifications *)

\* the statics as initialised at dma.rs:218-241
Init ==
    /\ dma_inst = [dma_init |-> FALSE, allocated_channels |-> 0,
                   free_channels |-> CONF_MAX_USED_CHANNEL_NUM]
    /\ descriptor_section = None
    /\ _write_back_section = None
    /\ _dma_active_resource = None
    /\ resources = [r \in ResIds |-> FreshResource]
    /\ dmac = DmacReset
    /\ chintflag = [c \in Channels |-> 0]
    /\ crit_depth = 0
    /\ halted = FALSE
    /\ last = [op |-> "init"]
    /\ pc = Idle
    /\ QspiInit

Next ==
    \/ \E r \in ResIds, config \in ConfigInputs : dma_allocate(r, config)
    \/ \E c \in Channels, config \in ConfigInputs : configure(c, config)
    \/ DMAC_Handler
    \/ \E c \in Channels, flag \in {TERR, TCMPL, SUSP} : HwRaiseFlag(c, flag)
    \/ \E c \in Channels : HwSwTrigger(c)

Spec == Init /\ [][Next]_vars

\* The allocator as a function of dma_inst: every value of the bitmask with
\* the counter that belongs to it, every set bit held by one caller's
\* resource; everything else as initialised
HeldChannels(res) ==
    { res[r].channel_id : r \in ResIds } \ {DMA_INVALID_CHANNEL}

InitAlloc ==
    /\ \E mask \in 0 .. (Pow2(CONF_MAX_USED_CHANNEL_NUM) - 1) :
       \E init \in BOOLEAN :
         dma_inst = [dma_init |-> init, allocated_channels |-> mask,
                     free_channels |->
                         CONF_MAX_USED_CHANNEL_NUM - PopCount(mask)]
    /\ resources \in
         [ResIds -> { [FreshResource EXCEPT !.channel_id = c] :
                        c \in Channels \cup {DMA_INVALID_CHANNEL} }]
    /\ HeldChannels(resources) =
         { c \in Channels : Bit(dma_inst.allocated_channels, c) = 1 }
    /\ \A r1, r2 \in ResIds :
         (r1 # r2 /\ resources[r1].channel_id = resources[r2].channel_id)
            => resources[r1].channel_id = DMA_INVALID_CHANNEL
    /\ \/ descriptor_section = None /\ _write_back_section = None
       \/ /\ descriptor_section = Some([c \in Channels |-> MaxCount])
          /\ _write_back_section = Some([c \in Channels |-> MaxCount])
    /\ _dma_active_resource = None
    /\ dmac = DmacReset
    /\ chintflag = [c \in Channels |-> 0]
    /\ crit_depth = 0
    /\ halted = FALSE
    /\ last = [op |-> "init"]
    /\ pc = Idle
    /\ QspiInit

NextAlloc ==
    \/ \E r \in ResIds, config \in ConfigInputs : dma_allocate(r, config)
    \/ \E r \in ResIds : release(r)

SpecAlloc == InitAlloc /\ [][NextAlloc]_vars

\* The dispatcher as a function of the statics it reads: the active-resource
\* table unset, or set with every channel allocated to the resource its
\* entry refers to; the two descriptor tables unset, or set with a block
\* count and a write-back count that has not been counted down yet
InitIsr ==
    /\ \E published \in BOOLEAN :
         IF published
         THEN /\ dma_inst = [dma_init |-> FALSE,
                             allocated_channels |->
                                 Pow2(CONF_MAX_USED_CHANNEL_NUM) - 1,
                             free_channels |-> 0]
              /\ _dma_active_resource = Some([c \in Channels |-> c + 1])
              /\ resources =
                   [r \in ResIds |->
                      IF r - 1 \in Channels
                      THEN [FreshResource EXCEPT !.channel_id = r - 1]
                      ELSE FreshResource]
         ELSE /\ dma_inst = [dma_init |-> FALSE, allocated_channels |-> 0,
                             free_channels |-> CONF_MAX_USED_CHANNEL_NUM]
              /\ _dma_active_resource = None
              /\ resources = [r \in ResIds |-> FreshResource]
    /\ \/ descriptor_section = None /\ _write_back_section = None
       \/ /\ descriptor_section = Some([c \in Channels |-> MaxCount - c])
          /\ _write_back_section = Some([c \in Channels |-> MaxCount - c])
    /\ dmac = DmacReset
    /\ chintflag = [c \in Channels |-> 0]
    /\ crit_depth = 0
    /\ halted = FALSE
    /\ last = [op |-> "init"]
    /\ pc = Idle
    /\ QspiInit

NextIsr ==
    \/ DMAC_Handler
    \/ \E c \in Channels, flag \in {TERR, TCMPL, SUSP} : HwRaiseFlag(c, flag)
    \/ \E c \in Channels : HwTransferBeat(c)

SpecIsr == InitIsr /\ [][NextIsr]_vars

\* The dispatcher re-invoked for as long as it can run: the interrupt line
\* stays asserted while a flag is pending, so the handler is entered again
\* after every return
SpecIsrFair == SpecIsr /\ WF_vars(DMAC_Handler)

\* Release against the dispatcher: every channel allocated and published,
\* then released by its owner while interrupts keep arriving
InitRelease ==
    /\ dma_inst = [dma_init |-> FALSE,
                   allocated_channels |-> Pow2(CONF_MAX_USED_CHANNEL_NUM) - 1,
                   free_channels |-> 0]
    /\ _dma_active_resource = Some([c \in Channels |-> c + 1])
    /\ resources =
         [r \in ResIds |->
            IF r - 1 \in Channels
            THEN [FreshResource EXCEPT !.channel_id = r - 1]
            ELSE FreshResource]
    /\ descriptor_section = Some([c \in Channels |-> MaxCount])
    /\ _write_back_section = Some([c \in Channels |-> 0])
    /\ dmac = DmacReset
    /\ chintflag = [c \in Channels |-> 0]
    /\ crit_depth = 0
    /\ halted = FALSE
    /\ last = [op |-> "init"]
    /\ pc = Idle
    /\ QspiInit

NextRelease ==
    \/ \E r \in ResIds : release(r)
    \/ \E r \in ResIds, config \in ConfigInputs : dma_allocate(r, config)
    \/ DMAC_Handler
    \/ \E c \in Channels : HwRaiseFlag(c, TCMPL)

SpecRelease == InitRelease /\ [][NextRelease]_vars

\* dma_allocate from the channel it was granted on: the start-up statics
\* with the initialised flag either way, the descriptor tables and the
\* active-resource table unset or set, no channel allocated yet
InitGrant ==
    /\ \E init \in BOOLEAN :
         dma_inst = [dma_init |-> init, allocated_channels |-> 0,
                     free_channels |-> CONF_MAX_USED_CHANNEL_NUM]
    /\ resources = [r \in ResIds |-> FreshResource]
    /\ \/ descriptor_section = None /\ _write_back_section = None
       \/ /\ descriptor_section = Some([c \in Channels |-> MaxCount])
          /\ _write_back_section = Some([c \in Channels |-> MaxCount])
    /\ _dma_active_resource \in {None, Some([c \in Channels |-> c + 1])}
    /\ dmac = DmacReset
    /\ chintflag = [c \in Channels |-> 0]
    /\ crit_depth = 0
    /\ halted = FALSE
    /\ last = [op |-> "init"]
    /\ pc = Idle
    /\ QspiInit

NextGrant ==
    \/ \E r \in ResIds, config \in ConfigInputs, count \in Channels :
         dma_allocate_granted(r, config, count)
    \/ \E r \in ResIds : release(r)

SpecGrant == InitGrant /\ [][NextGrant]_vars

\* The configuration engine against the controller: channels are
\* configured in any order with any configuration while software triggers
\* become pending
NextConfig ==
    \/ \E c \in Channels, config \in ConfigInputs : configure(c, config)
    \/ \E c \in Channels : HwSwTrigger(c)

SpecConfig == Init /\ [][NextConfig]_vars

\* The calls statement by statement against the completion interrupt: the
\* statics of InitGrant with the descriptor tables and the active-resource
\* table set, so that the dispatcher runs to its end
InitSteps ==
    /\ InitGrant
    /\ descriptor_section # None
    /\ _dma_active_resource # None

\* the callers followed statement by statement: one resource per channel,
\* configured with the defaults or with an event input action
StepResIds == 1 .. CONF_MAX_USED_CHANNEL_NUM

StepConfigs == { config \in ConfigInputs : ~config.event_output_enable }

NextSteps ==
    \/ \E r \in StepResIds, config \in StepConfigs,
          taken \in Channels \cup {DMA_INVALID_CHANNEL} :
         allocate_enter(r, config, taken)
    \/ allocate_init
    \/ find_enter
    \/ find_scan
    \/ find_count
    \/ find_leave
    \/ allocate_check
    \/ allocate_reset
    \/ set_config_enter
    \/ \E c \in Channels, config \in StepConfigs : configure_enter(c, config)
    \/ set_config_chid
    \/ set_config_swtrig
    \/ set_config_chctrlb
    \/ set_config_leave
    \/ allocate_publish
    \/ allocate_leave
    \/ \E r \in StepResIds : release_clear(r)
    \/ release_count
    \/ Interrupt
    \/ \E c \in Channels : HwRaiseFlag(c, TCMPL)

SpecSteps == InitSteps /\ [][NextSteps]_vars

\* The QSPI driver from the peripheral as Qspi::new leaves it: every entry
\* point called with every command, one statement of the instruction per
\* step, while the controller ends the instruction it was started on
QspiSteps ==
    \/ instraddr_write
    \/ instrctrl_write
    \/ instrframe_read
    \/ data_copy
    \/ lastxfer_write
    \/ instrend_wait
    \/ instrend_clear

NextQspi ==
    \/ \E command \in Command : run_command(command)
    \/ \E command \in Command, response \in ResponseBuffers :
         read_command(command, response)
    \/ \E command \in Command, data \in DataBuffers :
         write_command(command, data)
    \/ \E command \in Command, address \in Addresses :
         erase_command(command, address)
    \/ \E addr \in Addresses, buf \in ResponseBuffers :
         read_memory(addr, buf)
    \/ \E addr \in Addresses, buf \in DataBuffers :
         write_memory(addr, buf)
    \/ QspiSteps
    \/ HwInstrEnd

SpecQspi == Init /\ [][NextQspi]_vars

\* the thread of control keeps executing the statement it stands at, and
\* the controller ends every instruction it was started on
SpecQspiFair == SpecQspi /\ WF_vars(QspiSteps) /\ WF_vars(HwInstrEnd)

\* the clock divider set to every value of a u8
NextClk == \E value \in U8 : set_clk_divider(value)

SpecClk == Init /\ [][NextClk]_vars

----------------------------------------------------------------------------
(* Properties of the channel allocator *)

\* the lowest-numbered clear bit of a bitmask that has one within 0..N-1
LowestFree(mask) ==
    CHOOSE c \in Channels :
      /\ Bit(mask, c) = 0
      /\ \A b \in Channels : Bit(mask, b) = 0 => c <= b

HasFree(mask) == \E c \in Channels : Bit(mask, c) = 0

AllocatorReturned == last.op = "dma_allocate" /\ last.scanned

\* C1: no two live resources hold the same channel id, and an allocation
\* never returns a channel id that a live resource held when it was called
C1_NoSharedChannel ==
    /\ \A r1, r2 \in ResIds :
         (r1 # r2 /\ resources[r1].channel_id \in Channels)
            => resources[r1].channel_id # resources[r2].channel_id
    /\ (AllocatorReturned /\ last.new_channel # DMA_INVALID_CHANNEL)
          => last.new_channel \notin HeldChannels(last.pre_resources)

\* the allocator has been called while one channel was held and one was free
C1_Witness ==
    /\ AllocatorReturned
    /\ HeldChannels(last.pre_resources) # {}
    /\ HasFree(last.pre.allocated_channels)
    /\ HeldChannels(resources) # {}

\* C2: with all N channels allocated the allocator returns
\* DMA_INVALID_CHANNEL in the one call, dma_allocate reports ErrNotFound, and
\* the bitmask and the counter are left alone
C2_ExhaustedReturnsInvalid ==
    (AllocatorReturned
       /\ last.pre.allocated_channels = Pow2(CONF_MAX_USED_CHANNEL_NUM) - 1)
      => /\ last.new_channel = DMA_INVALID_CHANNEL
         /\ last.status = "ErrNotFound"
         /\ dma_inst.allocated_channels = last.pre.allocated_channels
         /\ dma_inst.free_channels = last.pre.free_channels

\* an allocation was attempted with every channel taken
C2_Witness ==
    /\ AllocatorReturned
    /\ last.pre.allocated_channels = Pow2(CONF_MAX_USED_CHANNEL_NUM) - 1
    /\ last.pre.free_channels = 0
    /\ last.new_channel = DMA_INVALID_CHANNEL

\* C3: whenever a bit within 0..N-1 is clear the allocator returns the
\* lowest clear bit, sets exactly that bit and decrements free_channels by one
C3_AllocatesLowestFree ==
    (AllocatorReturned /\ HasFree(last.pre.allocated_channels))
      => /\ last.new_channel = LowestFree(last.pre.allocated_channels)
         /\ dma_inst.allocated_channels =
              SetBit(last.pre.allocated_channels, last.new_channel)
         /\ dma_inst.free_channels = last.pre.free_channels - 1

C5_PopCountPlusFree ==
    /\ PopCount(dma_inst.allocated_channels) + dma_inst.free_channels
          = CONF_MAX_USED_CHANNEL_NUM
    /\ (last.op = "init" /\ HeldChannels(resources) = {})
          => /\ dma_inst.allocated_channels = 0
             /\ dma_inst.free_channels = CONF_MAX_USED_CHANNEL_NUM

\* a channel has been released while another one is still allocated
C5_Witness ==
    /\ last.op = "_dma_release_channel"
    /\ Bit(last.pre.allocated_channels, last.channel) = 1
    /\ dma_inst.allocated_channels # 0
    /\ dma_inst.free_channels = 1

----------------------------------------------------------------------------
(* Properties of the completion dispatcher *)

HandlerRan == last.op = "DMAC_Handler"

HandlerReturned == last.op = "DMAC_Handler" /\ ~last.panicked

\* C6: a dispatch for a pending channel with no resource registered invokes
\* no callback, does not panic and returns with the critical section left
C6_StaleInterruptAbsorbed ==
    (HandlerRan /\ last.pre_table = None)
      => /\ ~last.panicked
         /\ ~halted
         /\ last.cb = NoCallback
         /\ crit_depth = 0

C8_ClassifyPriority ==
    HandlerReturned =>
      LET id == last.resource.channel_id
          terr == Bit(last.isr, 0) = 1
          tcmpl == Bit(last.isr, 1) = 1
          susp == Bit(last.isr, 2) = 1
      IN
      /\ last.isr = last.pre_chintflag[id]
      /\ terr =>
           /\ last.kind = "Error"
           /\ last.resource.job_status = "ErrIO"
           /\ chintflag[id] = last.isr - 1
      /\ (~terr /\ tcmpl) =>
           /\ last.kind = "Done"
           /\ last.resource.job_status = "OK"
           /\ chintflag[id] = last.isr - 2
      /\ (~terr /\ ~tcmpl /\ susp) =>
           /\ last.kind = "Suspend"
           /\ last.resource.job_status = "Suspend"
           /\ chintflag[id] = last.isr - 4
      /\ \A c \in Channels : c # id => chintflag[c] = last.pre_chintflag[c]

\* a dispatch found all three flags set and handled the error
C8_Witness ==
    /\ HandlerReturned
    /\ last.isr = 7
    /\ last.resource.job_status = "ErrIO"
    /\ chintflag[last.resource.channel_id] = 6

\* C9: the callback of the classified event kind is invoked if and only if
\* that kind's bit of callback_enable is set; no other callback is invoked
C9_CallbackGating ==
    HandlerReturned =>
      LET enable == last.resource.callback_enable IN
      /\ last.kind = "Error" =>
           (IF Bit(enable, 0) = 1 THEN last.cb = "Error"
                                  ELSE last.cb = NoCallback)
      /\ last.kind = "Done" =>
           (IF Bit(enable, 1) = 1 THEN last.cb = "Done"
                                  ELSE last.cb = NoCallback)
      /\ last.kind = "Suspend" =>
           (IF Bit(enable, 2) = 1 THEN last.cb = "Suspend"
                                  ELSE last.cb = NoCallback)
      /\ last.kind = NoEvent => last.cb = NoCallback

\* only the Done callback is enabled and the error flag is the one set: no
\* callback is invoked
C9_Witness ==
    /\ HandlerReturned
    /\ last.resource.callback_enable = 2
    /\ last.isr = 1
    /\ last.kind = "Error"
    /\ last.cb = NoCallback

\* C10: the transferred size a dispatch stores is the descriptor's block
\* count minus the write-back count of the resource's channel, whatever the
\* resource held before
C10_TransferredSize ==
    HandlerReturned =>
      LET id == last.resource.channel_id
          K == unwrap(descriptor_section)[id]
          R == unwrap(_write_back_section)[id]
      IN
      /\ R <= K
      /\ last.resource.transferred_size = K - R

\* a dispatch computed a size strictly between 0 and the block count, other
\* than the value the resource carried before
C10_Witness ==
    /\ HandlerReturned
    /\ unwrap(_write_back_section)[last.resource.channel_id] > 0
    /\ last.resource.transferred_size > 0
    /\ last.resource.transferred_size # last.resource_in.transferred_size

C20_NeverArmedSizeZero ==
    LET id == last.resource.channel_id IN
    (HandlerReturned
       /\ Bit(dma_inst.allocated_channels, id) = 1
       /\ unwrap(descriptor_section)[id] = unwrap(_write_back_section)[id])
      => last.resource.transferred_size = 0

\* a dispatch for an allocated channel whose counts are equal and not zero
\* replaced the size its resource held by 0
C20_Witness ==
    /\ HandlerReturned
    /\ Bit(dma_inst.allocated_channels, last.resource.channel_id) = 1
    /\ unwrap(descriptor_section)[last.resource.channel_id] > 0
    /\ unwrap(descriptor_section)[last.resource.channel_id]
          = unwrap(_write_back_section)[last.resource.channel_id]
    /\ last.resource_in.transferred_size # 0
    /\ last.resource.transferred_size = 0

\* C25: a callback is invoked only after the flag of its event is cleared
\* and the job status of that event is stored, and before the handler leaves
\* the critical section: it finds the new status, the flag cleared and the
\* critical section held
C25_CallbackAfterClearAndStatus ==
    (HandlerReturned /\ last.cb # NoCallback)
      => /\ last.cb_view.job_status = StatusOf(last.cb)
         /\ BitAnd(last.cb_view.pending, FlagOf(last.cb)) = 0
         /\ last.cb_view.depth > 0
         /\ crit_depth = last.cb_view.depth - 1

\* the Done callback ran with the suspend flag of its channel still pending
C25_Witness ==
    /\ HandlerReturned
    /\ last.cb = "Done"
    /\ last.isr = 6
    /\ last.cb_view.job_status = "OK"
    /\ last.cb_view.pending = 4
    /\ last.cb_view.depth = 1

\* C28: one run of DMAC_Handler clears at most one flag and invokes at most
\* the callback of that flag's event; with none of the three flags set for
\* the selected channel it invokes no callback, clears no flag and leaves
\* the job status as it was
C28_AtMostOneCallback ==
    HandlerReturned =>
      LET id == last.resource.channel_id
          cleared == last.pre_chintflag[id] - chintflag[id]
      IN
      /\ cleared \in {0, TERR, TCMPL, SUSP}
      /\ last.cb # NoCallback => cleared = FlagOf(last.cb)
      /\ last.isr = 0
           => /\ last.cb = NoCallback
              /\ chintflag = last.pre_chintflag
              /\ last.resource.job_status = last.resource_in.job_status

\* a dispatch with every callback enabled found no flag set for the channel
\* it selected, while the other channel had one pending
C28_Witness ==
    /\ HandlerReturned
    /\ last.isr = 0
    /\ last.resource_in.callback_enable = 7
    /\ last.cb = NoCallback
    /\ \E c \in Channels : chintflag[c] # 0
    /\ last.resource.job_status = "Busy"

----------------------------------------------------------------------------
(* Properties of resource allocation *)

\* the registers the controller bring-up writes
BringUpRegisters == {"ahbmask", "apbbmask", "ctrl", "baseaddr", "wrbaddr"}

C30_FailedAllocateChangesNothing ==
    (last.op = "dma_allocate" /\ last.status = "ErrNotFound")
      => /\ dma_inst.allocated_channels = last.pre.allocated_channels
         /\ dma_inst.free_channels = last.pre.free_channels
         /\ _dma_active_resource = last.pre_table
         /\ \A r \in ResIds :
              resources[r].channel_id = last.pre_resources[r].channel_id

\* a third resource was refused while two resources held both channels
C30_Witness ==
    /\ last.op = "dma_allocate"
    /\ last.status = "ErrNotFound"
    /\ HeldChannels(last.pre_resources) = Channels
    /\ HeldChannels(resources) = Channels
    /\ resources[last.res].channel_id = DMA_INVALID_CHANNEL
    /\ dma_inst.free_channels = 0

----------------------------------------------------------------------------
(* Properties of the configuration engine *)

ConfigApplied == last.op = "_dma_set_config"

\* C16: _dma_set_config writes priority level, trigger source and trigger
\* action from the configuration, enables event input and programs the input
\* action exactly when the input action is not NoAct, and enables event
\* output exactly when event_output_enable is true
C16_SetConfigFields ==
    ConfigApplied =>
      LET b == dmac.chctrlb[last.channel_id]
          config == last.config
      IN
      /\ dmac.chid = last.channel_id
      /\ b.lvl = config.priority
      /\ b.trigsrc = config.peripheral_trigger
      /\ b.trigact = config.trigger_action
      /\ b.evie <=> (config.input_action # 0)
      /\ config.input_action # 0 => b.evact = config.input_action
      /\ b.evoe <=> config.event_output_enable

\* a configuration with an input action and without event output has been
\* written to channel 1
C16_Witness ==
    /\ ConfigApplied
    /\ last.channel_id = 1
    /\ last.config.input_action # 0
    /\ ~last.config.event_output_enable
    /\ dmac.chctrlb[1].evie
    /\ dmac.chctrlb[1].evact = last.config.input_action
    /\ ~dmac.chctrlb[1].evoe

\* C17: calling _dma_set_config a second time with the same resource and
\* configuration leaves the channel selector, the software-trigger register
\* and the channel-control register as the first call left them
C17_SetConfigIdempotent ==
    ConfigApplied =>
      LET again == _dma_set_config(dmac, last.channel_id, last.config) IN
      /\ again.chid = dmac.chid
      /\ again.swtrigctrl = dmac.swtrigctrl
      /\ again.chctrlb = dmac.chctrlb

\* the call cleared a pending software trigger of its channel and enabled
\* event input
C17_Witness ==
    /\ ConfigApplied
    /\ Bit(last.pre_swtrigctrl, last.channel_id) = 1
    /\ Bit(dmac.swtrigctrl, last.channel_id) = 0
    /\ last.config.input_action # 0
    /\ dmac.chctrlb[last.channel_id].evie

----------------------------------------------------------------------------
(* Properties of the allocation scenario *)

\* C18: every dma_allocate call returns at once, with OK when a channel was
\* free and with ErrNotFound when none was, and the allocator's scan takes at
\* most N iterations
C18_AllocateReturnsAtOnce ==
    last.op = "dma_allocate" =>
      /\ ~last.panicked
      /\ last.scan_iterations <= CONF_MAX_USED_CHANNEL_NUM
      /\ IF HasFree(last.pre.allocated_channels)
         THEN last.status = "OK"
         ELSE last.status = "ErrNotFound"

\* C19: with N = 2 and from the initial state, the first allocation returns
\* id 0 and the second id 1, a third reports exhaustion, and the allocation
\* that follows the release of id 0 returns id 0
C19_ScenarioTwoChannels ==
    (CONF_MAX_USED_CHANNEL_NUM = 2 /\ AllocatorReturned) =>
      /\ last.pre.allocated_channels = 0
           => last.new_channel = 0 /\ last.status = "OK"
      /\ last.pre.allocated_channels = 1
           => last.new_channel = 1 /\ last.status = "OK"
      /\ last.pre.allocated_channels = 3
           => /\ last.new_channel = DMA_INVALID_CHANNEL
              /\ last.status = "ErrNotFound"
      /\ (last.pre.allocated_channels = 2 /\ last.after_release_of = 0)
           => last.new_channel = 0 /\ last.status = "OK"

----------------------------------------------------------------------------
(* Properties of the critical section *)

C23_SetConfigKeepsSelector ==
    /\ pc.at \in {"set_config_swtrig", "set_config_chctrlb", "set_config_leave"}
         => dmac.chid = pc.channel_id
    /\ pc.at = "set_config_leave"
         => /\ dmac.chctrlb[pc.channel_id] =
                 _dma_set_config(dmac, pc.channel_id,
                                 pc.config).chctrlb[pc.channel_id]
            /\ \A d \in Channels :
                 d # pc.channel_id => dmac.chctrlb[d] = pc.pre_chctrlb[d]

\* a configuration with an input action has been written to channel 1 while
\* an interrupt of channel 0 was pending
C23_Witness ==
    /\ pc.at = "set_config_leave"
    /\ pc.caller = "none"
    /\ pc.channel_id = 1
    /\ pc.config.input_action # 0
    /\ dmac.chctrlb[1].evie
    /\ chintflag[0] # 0
    /\ _dma_active_resource # None
    /\ ~halted

----------------------------------------------------------------------------
(* Properties of the order of steps *)

\* dma_allocate has its channel and has reset it
ChannelObtainedAndReset ==
    /\ pc.count \in Channels
    /\ Bit(dma_inst.allocated_channels, pc.count) = 1
    /\ dmac.chctrla[pc.count] = "swrst"

----------------------------------------------------------------------------
(* Invariants of the tables *)

----------------------------------------------------------------------------
(* Balance of the critical section *)

\* C31: every operation leaves the critical section as many times as it
\* entered it, on every path through it: the nesting depth after an
\* operation is the depth before it, so the completion interrupt is not
\* left masked
C31_CriticalSectionBalanced ==
    [][ crit_depth' = crit_depth ]_vars

\* the returning paths taken one statement at a time: the depth is the
\* number of calls the thread of control stands in that have entered the
\* critical section, and it is 0 again at every return
ReturnPathsBalanced ==
    ~halted =>
      crit_depth =
        CASE pc.at \in {"idle", "release_count"} -> 0
          [] pc.at \in {"find_scan", "find_count", "find_leave"} -> 2
          [] pc.at \in {"set_config_chid", "set_config_swtrig",
                        "set_config_chctrlb", "set_config_leave"} ->
               IF pc.caller = "dma_allocate" THEN 2 ELSE 1
          [] OTHER -> 1


----------------------------------------------------------------------------
(* Frame of the configuration engine *)

\* C32: _dma_set_config for channel c clears bit c of the software-trigger
\* register and no other bit of it: the pending software triggers of the
\* other channels are as before the call, and so are the allocation
\* bitmask, the free counter and the active-resource table
C32_SetConfigFrame ==
    [][ last'.op = "_dma_set_config"
          => /\ Bit(dmac'.swtrigctrl, last'.channel_id) = 0
             /\ \A d \in Channels :
                  d # last'.channel_id
                    => Bit(dmac'.swtrigctrl, d) = Bit(dmac.swtrigctrl, d)
             /\ dmac'.swtrigctrl < Pow2(CONF_MAX_USED_CHANNEL_NUM)
             /\ dma_inst' = dma_inst
             /\ _dma_active_resource' = _dma_active_resource ]_vars

\* channel 0 was configured while the software triggers of both channels
\* were pending: the one of channel 1 still is
C32_Witness ==
    /\ last.op = "_dma_set_config"
    /\ last.channel_id = 0
    /\ last.pre_swtrigctrl = 3
    /\ dmac.swtrigctrl = 2


----------------------------------------------------------------------------
(* Properties of the QSPI command driver *)

\* C33: run_command, read_command, write_command and erase_command
\* partition the 16 commands: every command is accepted (Ok) by exactly
\* one of the four, and every other pairing of function and command
\* returns Err(CommandFunctionMismatch)
C33_CommandsPartitioned ==
    /\ Cardinality(Command) = 16
    /\ \A command \in Command :
         Cardinality({ fn \in CommandFunctions : Accepts(fn, command) }) = 1
    /\ (last.op = "qspi_returned" /\ last.fn \in CommandFunctions)
         => /\ last.result \in {Ok, CommandFunctionMismatch}
            /\ last.result = Ok <=> Accepts(last.fn, last.command)
            /\ last.result = CommandFunctionMismatch
                 => \E fn \in CommandFunctions \ {last.fn} :
                      Accepts(fn, last.command)

\* erase_command has run EraseChip to its end and returned Ok
C33_Witness ==
    /\ last.op = "qspi_returned"
    /\ last.fn = "erase_command"
    /\ last.command = "EraseChip"
    /\ last.result = Ok

\* C34: an entry point that rejects its command with
\* CommandFunctionMismatch has written no QSPI register and has touched
\* neither the flash window nor the caller's buffer
C34_RejectChangesNothing ==
    [][ (last'.op = "qspi_returned"
           /\ last'.result = CommandFunctionMismatch)
          => /\ qspi' = qspi
             /\ qspi_ahb' = qspi_ahb
             /\ last'.buf = last'.buf_in
             /\ last'.log = << >> ]_vars

\* write_command has rejected a command it was handed data for, after an
\* earlier instruction had left its frame, code and data in the peripheral
C34_Witness ==
    /\ last.op = "qspi_returned"
    /\ last.result = CommandFunctionMismatch
    /\ last.fn = "write_command"
    /\ Len(last.buf) > 0
    /\ qspi.instrframe.tfrtype = "readmemory"
    /\ qspi.instrctrl # 0
    /\ \E a \in Window : qspi_ahb[a] # 0

\* the steps of an instruction but the address write, which the claimed
\* order leaves out
OrderedSteps(log) == SelectSeq(log, LAMBDA e : e # "instraddr")

\* C35: every instruction writes the instruction frame, then the
\* instruction code, then reads the frame back, then copies the data (only
\* when the buffer is not empty), then signals the last transfer, then
\* waits for the instruction-end flag and then clears it; the call returns
\* provided the controller raises the flag, and the flag is clear on
\* return, so that no wait is passed on the flag of an earlier instruction
C35_InstructionOrder ==
    /\ []( (last.op = "qspi_returned" /\ last.result = Ok)
             => /\ OrderedSteps(last.log) =
                     << "instrframe", "instrctrl", "instrframe_read" >>
                       \o (IF Len(last.buf_in) > 0
                           THEN << "copy" >> ELSE << >>)
                       \o << "lastxfer", "instrend_seen", "instrend_clear" >>
                /\ ~qspi.instrend )
    /\ []( qpc.at = "idle" => ~qspi.instrend )
    /\ []( qpc.at = "instrend_clear" => ~qspi.in_flight )
    /\ (qpc.at # "idle") ~> (qpc.at = "idle")

\* write_memory has returned after copying its data into the flash window,
\* and the instruction-end flag is clear
C35_Witness ==
    /\ last.op = "qspi_returned"
    /\ last.fn = "write_memory"
    /\ last.result = Ok
    /\ Len(last.buf) > 0
    /\ qspi_ahb[last.addr] = 1
    /\ qspi.ctrla.lastxfer
    /\ ~qspi.instrend

\* C36: set_clk_divider(value) writes value - 1 to the baud field for
\* every value from 1 to 255 and 0 for value 0: the subtraction saturates
\* and does not wrap to 255
C36_ClkDividerSaturates ==
    last.op = "set_clk_divider"
      => /\ last.value \in 1 .. 255 => qspi.baud.baud = last.value - 1
         /\ last.value = 0 => qspi.baud.baud = 0
         /\ qspi.baud.baud \in 0 .. 254

\* the divider was set to 0 and the baud field holds 0
C36_Witness ==
    /\ last.op = "set_clk_divider"
    /\ last.value = 0
    /\ qspi.baud.baud = 0

====
